---- MODULE Spec2Model ----
(***************************************************************************)
(* NeRFRenderer (semantic-torch-ngp/nerf/renderer.py): the extra state of  *)
(* the occupancy-grid renderer (density grid, occupancy bitfield, step     *)
(* counter ring) and the operations that read and write it.                *)
(*                                                                         *)
(* Number format.  Densities are fixed-point numbers in units of the       *)
(* constructor's density_thresh (0.01); a product with decay is truncated  *)
(* to that unit.  mean_density is kept exactly, as the numerator of the    *)
(* mean over TotalCells.  A float result that is not a finite number is    *)
(* the tagged value NaN or Inf.                                            *)
(*                                                                         *)
(* Grid size.  grid_size ** 3 (128 ** 3 in the source) is scaled down to   *)
(* GridCells voxels per cascade; a voxel is named by its Morton index.     *)
(***************************************************************************)
EXTENDS Integers, Sequences, FiniteSets, TLC

\* ---------------------------------------------------------------- bounds
GridCells == 2
MaxIter == 18
MaxLocalStep == 18
MaxRays == 9
MaxFrameRays == 2
MaxFrameCalls == 2
MaxEpochs == 3

\* ------------------------------------------------------ program constants
bound == 1
density_scale == 1
density_thresh == 1
RingSize == 16
FullSweepCalls == 16
MaxCompactSteps == 8

\* ------------------------------------------------------------ input sets
Densities == {0, 2}
Decays == {<<19, 20>>, <<1, 1>>}
One == <<1, 1>>

VARIABLES
    cuda_ray,          \* NeRFRenderer.__init__, renderer.py:90
    density_grid,      \* NeRFRenderer.density_grid, renderer.py:93
    density_bitfield,  \* NeRFRenderer.density_bitfield, renderer.py:94
    mean_density,      \* NeRFRenderer.mean_density, renderer.py:97
    iter_density,      \* NeRFRenderer.iter_density, renderer.py:98
    step_counter,      \* NeRFRenderer.step_counter, renderer.py:100
    mean_count,        \* NeRFRenderer.mean_count, renderer.py:102
    local_step,        \* NeRFRenderer.local_step, renderer.py:103
    field,             \* NeRFRenderer.density, renderer.py:447
    tmp_grid,          \* NeRFRenderer.update_extra_state (tmp_grid), renderer.py:419
    decay,             \* NeRFRenderer.update_extra_state (decay), renderer.py:411
    rerun,             \* NeRFRenderer.update_extra_state (history: same decay and field as the update before), renderer.py:411
    op,                \* NeRFRenderer (history: the last operation), renderer.py:117
    pc,                \* NeRFRenderer.run_cuda, renderer.py:334
    N,                 \* NeRFRenderer.rays_rgb (N), renderer.py:136
    miss,              \* NeRFRenderer.rays_rgb (nears, fars), renderer.py:140
    training,          \* NeRFRenderer.rays_rgb (self.training), renderer.py:150
    staged,            \* NeRFRenderer.render (staged), renderer.py:507
    max_ray_batch,     \* NeRFRenderer.render (max_ray_batch), renderer.py:507
    max_steps,         \* NeRFRenderer.rays_rgb (max_steps), renderer.py:129
    rays_alive,        \* NeRFRenderer.rays_rgb (rays_alive), renderer.py:186
    step,              \* NeRFRenderer.rays_rgb (step), renderer.py:189
    n_step,            \* NeRFRenderer.rays_rgb (n_step), renderer.py:201
    rounds,            \* NeRFRenderer.rays_rgb (history: loop iterations), renderer.py:191
    results,           \* NeRFRenderer.run_cuda (results), renderer.py:338
    calls,             \* NeRFRenderer.run_cuda (history: training calls since the last update), renderer.py:334
    written           \* NeRFRenderer.rays_rgb (history: the pass that last set up a slot), renderer.py:152

gridVars == <<density_grid, density_bitfield, mean_density, iter_density>>
counterVars == <<step_counter, mean_count, local_step>>
updateVars == <<field, tmp_grid, decay, rerun>>
callVars == <<N, miss, training, staged, max_ray_batch, max_steps>>
loopVars == <<pc, rays_alive, step, n_step, rounds>>
vars == <<cuda_ray, density_grid, density_bitfield, mean_density, iter_density,
          step_counter, mean_count, local_step, field, tmp_grid, decay, rerun, op,
          pc, N, miss, training, staged, max_ray_batch, max_steps, rays_alive,
          step, n_step, rounds, results, calls, written>>

\* ---------------------------------------------------------------- helpers
Max(a, b) == IF a >= b THEN a ELSE b
Min(a, b) == IF a <= b THEN a ELSE b

RECURSIVE CeilLog2(_)
CeilLog2(n) == IF n <= 1 THEN 0 ELSE 1 + CeilLog2((n + 1) \div 2)

cascade == 1 + CeilLog2(bound)
Cas == 0 .. (cascade - 1)
Cells == 0 .. (GridCells - 1)
TotalCells == cascade * GridCells

RECURSIVE SumOver(_, _)
SumOver(f, S) ==
    IF S = {} THEN 0
    ELSE LET x == CHOOSE y \in S : TRUE IN f[x] + SumOver(f, S \ {x})

\* torch.mean(self.density_grid.clamp(min=0)), as the numerator over TotalCells
MeanClamped(g) ==
    SumOver([c \in Cas |-> SumOver([i \in Cells |-> Max(g[c][i], 0)], Cells)], Cas)

\* the decay factor left out of the update
MulDecay_None(v, d) == v

\* self.density_grid[valid_mask] * decay
MulDecay(v, d) == (v * d[1]) \div d[2]

\* raymarching.packbits(grid, thresh, bitfield): bit i is set when grid[i] >= thresh,
\* the threshold given as a numerator over TotalCells
packbits(g, threshNum) ==
    [c \in Cas |-> [i \in Cells |-> IF g[c][i] * TotalCells >= threshNum THEN 1 ELSE 0]]

ZeroGrid == [c \in Cas |-> [i \in Cells |-> 0]]
NoGrid == [c \in Cas |-> [i \in Cells |-> -1]]
ZeroCounter == [s \in 0 .. (RingSize - 1) |-> <<0, 0>>]
Fields == [Cas -> [Cells -> Densities]]
Slots == 0 .. (RingSize - 1)
NoneWritten == [s \in Slots |-> -1]
NoResults == [status |-> "none", depth |-> <<>>]

\* ------------------------------------------------------------ construction
\* NeRFRenderer.__init__: the extra state exists only with cuda_ray; without it
\* the buffers below are never created and the zero values stand for "absent"
\* (no operation reads them then).
Init ==
    /\ cuda_ray \in BOOLEAN
    /\ density_grid = ZeroGrid
    /\ density_bitfield = ZeroGrid
    /\ mean_density = 0
    /\ iter_density = 0
    /\ step_counter = ZeroCounter
    /\ mean_count = 0
    /\ local_step = 0
    /\ field = ZeroGrid
    /\ tmp_grid = NoGrid
    /\ decay = One
    /\ rerun = FALSE
    /\ op = "init"
    /\ pc = "idle"
    /\ N = 0
    /\ miss = {}
    /\ training = FALSE
    /\ staged = FALSE
    /\ max_ray_batch = 4096
    /\ max_steps = 1024
    /\ rays_alive = {}
    /\ step = 0
    /\ n_step = 0
    /\ rounds = 0
    /\ results = NoResults
    /\ calls = 0
    /\ written = NoneWritten

\* ----------------------------------------------------- reset_extra_state
reset_extra_state ==
    /\ pc = "idle"
    /\ IF ~cuda_ray
       THEN UNCHANGED <<gridVars, counterVars, calls, written>>
       ELSE /\ density_grid' = ZeroGrid
            /\ calls' = 0
            /\ written' = NoneWritten
            /\ mean_density' = 0
            /\ iter_density' = 0
            /\ step_counter' = ZeroCounter
            /\ mean_count' = 0
            /\ local_step' = 0
            /\ UNCHANGED density_bitfield
    /\ op' = "reset"
    /\ rerun' = FALSE
    /\ UNCHANGED <<cuda_ray, field, tmp_grid, decay, callVars, loopVars, results>>

\* --------------------------------------------------- mark_untrained_grid
\* unseen[c] is the set of voxels of cascade c with count == 0
MarkedGrid(g, unseen) ==
    [c \in Cas |-> [i \in Cells |-> IF i \in unseen[c] THEN -1 ELSE g[c][i]]]

mark_untrained_grid(unseen) ==
    /\ pc = "idle"
    /\ IF ~cuda_ray
       THEN UNCHANGED density_grid
       ELSE density_grid' = MarkedGrid(density_grid, unseen)
    /\ op' = "mark"
    /\ rerun' = FALSE
    /\ UNCHANGED <<cuda_ray, density_bitfield, mean_density, iter_density,
                   counterVars, field, tmp_grid, decay, callVars, loopVars,
                   results, calls, written>>

\* ---------------------------------------------------- update_extra_state
\* N = self.grid_size ** 3 // 4 draws per cascade, at least one in the scaled grid
PartialN == Max(GridCells \div 4, 1)

\* the full sweep given up one call early
FullSweep_Early == iter_density < FullSweepCalls - 1

FullSweep == iter_density < FullSweepCalls

\* torch.nonzero(self.density_grid[cas] > 0)
OccIndices(g, c) == {i \in Cells : g[c][i] > 0}

\* torch.randint(0, occ_indices.shape[0], [N]) raises when no voxel is occupied
PartialRaises == ~FullSweep /\ \E c \in Cas : OccIndices(density_grid, c) = {}

\* the voxels whose density is evaluated: all of them in the full sweep; in the
\* partial sweep the random draws U[c] and the resampled occupied voxels O[c]
Sampled(U, O, c) == IF FullSweep THEN Cells ELSE U[c] \cup O[c]

\* tmp_grid after the sweep, f[c][i] being self.density at voxel i of cascade c
FreshGrid(f, U, O) ==
    [c \in Cas |-> [i \in Cells |->
        IF i \in Sampled(U, O, c) THEN f[c][i] * density_scale ELSE -1]]

\* the index draws one call can make: torch.randint over the grid, and over
\* the occupied voxels (none are made in the full sweep)
Draws(S) == {D \in SUBSET S : D # {} /\ Cardinality(D) <= PartialN}
SweepDraws ==
    IF FullSweep \/ PartialRaises
    THEN {<<[c \in Cas |-> {}], [c \in Cas |-> {}]>>}
    ELSE {<<U, O>> : U \in [Cas -> Draws(Cells)],
                     O \in {o \in [Cas -> SUBSET Cells] :
                              \A c \in Cas : o[c] \in Draws(OccIndices(density_grid, c))}}

\* valid_mask without its test of the old value
EmaUpdate_IgnoresOld(g, t, d) ==
    [c \in Cas |-> [i \in Cells |->
        IF t[c][i] >= 0
        THEN Max(MulDecay(g[c][i], d), t[c][i])
        ELSE g[c][i]]]

\* the fresh density added to the decayed value instead of the maximum taken
EmaUpdate_Sum(g, t, d) ==
    [c \in Cas |-> [i \in Cells |->
        IF g[c][i] >= 0 /\ t[c][i] >= 0
        THEN MulDecay(g[c][i], d) + t[c][i]
        ELSE g[c][i]]]

\* valid_mask and torch.maximum(grid * decay, tmp_grid)
EmaUpdate(g, t, d) ==
    [c \in Cas |-> [i \in Cells |->
        IF g[c][i] >= 0 /\ t[c][i] >= 0
        THEN Max(MulDecay(g[c][i], d), t[c][i])
        ELSE g[c][i]]]

\* self.step_counter[:total_step, 0].sum().item() / total_step, as an int
MeanCount(sc, total_step) ==
    SumOver([s \in 0 .. (total_step - 1) |-> sc[s][1]], 0 .. (total_step - 1))
        \div total_step

\* the mean left out of the threshold
Threshold_Fixed(mean) == density_thresh * TotalCells

\* density_thresh = min(self.mean_density, self.density_thresh), as a numerator
\* over TotalCells
Threshold(mean) == Min(mean, density_thresh * TotalCells)

update_extra_state(d, f, U, O) ==
    /\ pc = "idle"
    /\ IF ~cuda_ray
       THEN /\ UNCHANGED <<gridVars, counterVars, tmp_grid, decay, field, calls, written>>
            /\ op' = "update_noop"
            /\ rerun' = FALSE
       ELSE IF PartialRaises
       THEN /\ UNCHANGED <<gridVars, counterVars, tmp_grid, decay, field, calls, written>>
            /\ op' = "update_raised"
            /\ rerun' = FALSE
       ELSE /\ tmp_grid' = FreshGrid(f, U, O)
            /\ density_grid' = EmaUpdate(density_grid, tmp_grid', d)
            /\ mean_density' = MeanClamped(density_grid')
            /\ iter_density' = iter_density + 1
            /\ density_bitfield' = packbits(density_grid', Threshold(mean_density'))
            /\ mean_count' = IF Min(RingSize, local_step) > 0
                             THEN MeanCount(step_counter, Min(RingSize, local_step))
                             ELSE mean_count
            /\ local_step' = 0
            /\ UNCHANGED step_counter
            /\ decay' = d
            /\ field' = f
            /\ rerun' = (op = "update" /\ d = decay /\ f = field)
            /\ calls' = 0
            /\ written' = NoneWritten
            /\ op' = "update"
    /\ UNCHANGED <<cuda_ray, callVars, loopVars, results>>

\* ----------------------------------------------------------- the grid life
CellSets == [Cas -> SUBSET Cells]

Next ==
    \/ reset_extra_state
    \/ \E unseen \in CellSets : mark_untrained_grid(unseen)
    \/ /\ iter_density < MaxIter
       /\ \E D \in SweepDraws, d \in Decays, f \in Fields :
              update_extra_state(d, f, D[1], D[2])

Spec == Init /\ [][Next]_vars

\* ------------------------------------------------------------- rendering
\* A float that is not a finite number, and float division
NaN == <<"nan", 0, 1>>
Inf == <<"inf", 0, 1>>
FDiv(a, b) == IF b = 0 THEN (IF a = 0 THEN NaN ELSE Inf) ELSE <<"fin", a, b>>

\* raymarching.near_far_from_aabb: a ray of the set m misses the box and gets
\* far == near; every other ray crosses it from 2 to 6
Nears(m, i) == IF i \in m THEN 9 ELSE 2
Fars(m, i) == IF i \in m THEN 9 ELSE 6

\* the compositor's depth sum of ray i: no sample on an empty interval or when
\* the ray was never marched, else one opaque sample at distance 4
DepthSum(m, i, marched) == IF i \in m \/ ~marched THEN 0 ELSE 4

\* depth = torch.clamp(depth - nears, min=0) / (fars - nears)
NormDepth(m, i, marched) ==
    FDiv(Max(DepthSum(m, i, marched) - Nears(m, i), 0), Fars(m, i) - Nears(m, i))

Rendered(n, m, marched) ==
    [status |-> "ok", depth |-> [i \in 1 .. n |-> NormDepth(m, i - 1, marched)]]
Raised(e) == [status |-> e, depth |-> <<>>]

\* the counter set up in inference too
UsesCounter_Always(tr) == TRUE

\* `if self.training:` of rays_rgb and rays_semantic: only a training pass
\* takes a slot of the step counter
UsesCounter(tr) == tr

\* local_step advanced before the slot is picked
TrainPass_IncrementFirst(c, s, n) ==
    LET slot == (c[2] + 1) % RingSize
    IN <<[c[1] EXCEPT ![slot] = <<s, n>>],
         c[2] + 1,
         [c[3] EXCEPT ![slot] = c[2]]>>

\* one training pass: counter = self.step_counter[self.local_step % 16];
\* counter.zero_(); self.local_step += 1; march_rays_train then adds its s
\* samples and n rays to the slot.  c is <<step_counter, local_step, written>>
TrainPass(c, s, n) ==
    LET slot == c[2] % RingSize
    IN <<[c[1] EXCEPT ![slot] = <<s, n>>],
         c[2] + 1,
         [c[3] EXCEPT ![slot] = c[2]]>>

rays_rgb_train(c, s, n) == TrainPass(c, s, n)
\* the semantic pass marching on the slot the colour pass has set up
rays_semantic_train_SharedSlot(c, s, n) == c

rays_semantic_train(c, s, n) == TrainPass(c, s, n)

\* n_step without its upper clamp
CompactSteps_NoClamp(n, n_alive) == Max(n \div n_alive, 1)

\* n_step = max(min(N // n_alive, 8), 1)
CompactSteps(n, n_alive) == Max(Min(n \div n_alive, MaxCompactSteps), 1)

\* the loop without its step cap
LoopRuns_NoCap == rays_alive # {}

\* while step < max_steps: ... if n_alive <= 0: break
LoopRuns == step < max_steps /\ rays_alive # {}

\* render(rays_o, rays_d, semantic_class_length, staged, max_ray_batch, **kwargs)
\* on n >= 1 rays, those of m missing the box; tr is self.training, ms the
\* max_steps option, s1 and s2 the samples the two training marches emit.
render(n, m, tr, st, mrb, ms, s1, s2) ==
    /\ pc = "idle"
    /\ N' = n /\ miss' = m /\ training' = tr
    /\ staged' = st /\ max_ray_batch' = mrb /\ max_steps' = ms
    /\ IF st /\ ~cuda_ray
       THEN \* _run(rays_o[b:b+1, head:tail], rays_d[b:b+1, head:tail], **kwargs):
            \* semantic_class_length is not passed, run_cuda raises TypeError
            /\ results' = Raised("TypeError")
            /\ op' = "render_raised"
            /\ UNCHANGED <<counterVars, calls, written, loopVars>>
       ELSE IF ~cuda_ray
       THEN \* self.step_counter, self.density_bitfield do not exist
            /\ results' = Raised("AttributeError")
            /\ op' = "render_raised"
            /\ UNCHANGED <<counterVars, calls, written, loopVars>>
       ELSE IF UsesCounter(tr)
       THEN /\ LET c0 == <<step_counter, local_step, written>>
                   c1 == rays_rgb_train(c0, s1, n)
                   c2 == rays_semantic_train(c1, s2, n)
               IN /\ step_counter' = c2[1]
                  /\ local_step' = c2[2]
                  /\ written' = c2[3]
            /\ calls' = calls + 1
            /\ results' = Rendered(n, m, TRUE)
            /\ op' = "render"
            /\ UNCHANGED <<mean_count, loopVars>>
       ELSE /\ pc' = "rgb"
            /\ rays_alive' = 0 .. (n - 1)
            /\ step' = 0
            /\ n_step' = 0
            /\ rounds' = 0
            /\ results' = NoResults
            /\ op' = "render_start"
            /\ UNCHANGED <<counterVars, calls, written>>
    /\ UNCHANGED <<cuda_ray, gridVars, updateVars>>

\* one round of the inference loop of rays_rgb or rays_semantic; keep is the
\* alive set the compositor leaves (rays_alive[rays_alive >= 0])
inference_round(keep) ==
    /\ pc \in {"rgb", "semantic"}
    /\ LoopRuns
    /\ keep \subseteq rays_alive
    /\ n_step' = CompactSteps(N, Cardinality(rays_alive))
    /\ rays_alive' = keep
    /\ step' = step + n_step'
    /\ rounds' = rounds + 1
    /\ op' = "round"
    /\ UNCHANGED <<cuda_ray, gridVars, counterVars, updateVars, callVars, pc,
                   results, calls, written>>

\* the loop is left: rays_rgb stores its image and depth and rays_semantic
\* starts; rays_semantic stores its depth and run_cuda returns
loop_exit ==
    /\ pc \in {"rgb", "semantic"}
    /\ ~LoopRuns
    /\ IF pc = "rgb"
       THEN /\ pc' = "semantic"
            /\ rays_alive' = 0 .. (N - 1)
            /\ step' = 0
            /\ n_step' = 0
            /\ rounds' = 0
            /\ results' = Rendered(N, miss, rounds > 0)
            /\ op' = "rgb_done"
       ELSE /\ pc' = "idle"
            /\ results' = Rendered(N, miss, rounds > 0)
            /\ op' = "render"
            /\ UNCHANGED <<rays_alive, step, n_step, rounds>>
    /\ UNCHANGED <<cuda_ray, gridVars, counterVars, updateVars, callVars,
                   calls, written>>

\* --------------------------------------------------- inference rendering
StepCaps == {2, 10}
SampleCounts == {1, 2}
Unstaged == <<FALSE, 4096>>
BatchOptions == {Unstaged, <<TRUE, 1>>}

\* the inference loops of run_cuda on up to MaxRays rays
NextRender ==
    \/ \E n \in 1 .. MaxRays, ms \in StepCaps :
           render(n, {}, FALSE, Unstaged[1], Unstaged[2], ms, 0, 0)
    \/ \E keep \in SUBSET rays_alive : inference_round(keep)
    \/ loop_exit

SpecRender == Init /\ [][NextRender]_vars

\* ------------------------------------------------------ training epochs
\* training calls between grid updates; without perturb the two marches of a
\* call emit the same number of samples
FullField == [c \in Cas |-> [i \in Cells |-> 2]]

NextTrain ==
    \/ \E s \in SampleCounts :
           local_step < MaxLocalStep /\ render(1, {}, TRUE, Unstaged[1], Unstaged[2], 2, s, s)
    \/ /\ iter_density < MaxEpochs
       /\ \E D \in SweepDraws : update_extra_state(One, FullField, D[1], D[2])
    \/ reset_extra_state

SpecTrain == Init /\ [][NextTrain]_vars

\* ------------------------------------------- render calls on a trained grid
\* Calls in both modes on up to MaxFrameRays rays, some of them missing the
\* box; a training march emits one sample per ray.
\* The renderer as constructed, or after mark_untrained_grid on voxel 0 of each
\* cascade and one update_extra_state(decay = 1.0) on the field FullField.
UnseenFirst == [c \in Cas |-> {0}]
TrainedGrid == EmaUpdate(MarkedGrid(ZeroGrid, UnseenFirst), FullField, One)

TrainedInit ==
    /\ cuda_ray = TRUE
    /\ density_grid = TrainedGrid
    /\ mean_density = MeanClamped(TrainedGrid)
    /\ density_bitfield = packbits(TrainedGrid, Threshold(MeanClamped(TrainedGrid)))
    /\ iter_density = 1
    /\ step_counter = ZeroCounter
    /\ mean_count = 0
    /\ local_step = 0
    /\ field = FullField
    /\ tmp_grid = FullField
    /\ decay = One
    /\ rerun = FALSE
    /\ op = "update"
    /\ pc = "idle"
    /\ N = 0
    /\ miss = {}
    /\ training = FALSE
    /\ staged = FALSE
    /\ max_ray_batch = 4096
    /\ max_steps = 1024
    /\ rays_alive = {}
    /\ step = 0
    /\ n_step = 0
    /\ rounds = 0
    /\ results = NoResults
    /\ calls = 0
    /\ written = NoneWritten

InitFrame == Init \/ TrainedInit

NextFrame ==
    \/ \E n \in 1 .. MaxFrameRays, tr \in BOOLEAN, b \in BatchOptions :
           \E m \in SUBSET (0 .. (n - 1)) :
               (tr => calls < MaxFrameCalls) /\ render(n, m, tr, b[1], b[2], 2, n, n)
    \/ \E keep \in SUBSET rays_alive : inference_round(keep)
    \/ loop_exit

SpecFrame == InitFrame /\ [][NextFrame]_vars

\* ------------------------------------------------------------------ claims
\* The variables tmp_grid, decay and field hold the last completed update's
\* tmp_grid, decay argument and field densities; rerun tells that the last
\* operation was an update that directly followed an update with the same decay
\* and the same field; op names the last operation.
EvaluatedCells(t, c) == {i \in Cells : t[c][i] >= 0}

\* C3: a cell that holds -1 (set by mark_untrained_grid) still holds -1 after
\* any update_extra_state call, in either regime, for any decay and densities.
C3_MarkedCellsKept ==
    [][op' \in {"update", "update_raised", "update_noop"} =>
         \A c \in Cas, i \in Cells :
             density_grid[c][i] = -1 => density_grid'[c][i] = -1]_vars

C3_Witness ==
    /\ op = "update" /\ iter_density > FullSweepCalls /\ decay # One
    /\ \E c \in Cas, i \in Cells :
           density_grid[c][i] = -1 /\ tmp_grid[c][i] > 0

\* C4: in one update, a cell with old value >= 0 and fresh value >= 0 ends with
\* max(old * decay, fresh); every other cell keeps its old value.
C4_UpdateRule ==
    [][op' = "update" =>
         \A c \in Cas, i \in Cells :
             density_grid'[c][i] =
                 IF density_grid[c][i] >= 0 /\ tmp_grid'[c][i] >= 0
                 THEN Max((density_grid[c][i] * decay'[1]) \div decay'[2], tmp_grid'[c][i])
                 ELSE density_grid[c][i]]_vars

C4_Witness ==
    /\ op = "update" /\ decay # One /\ iter_density > FullSweepCalls
    /\ \E c \in Cas, i, j \in Cells :
           /\ tmp_grid[c][i] = 0 /\ density_grid[c][i] = 1
           /\ tmp_grid[c][j] = -1 /\ density_grid[c][j] >= 0

\* C5 as claimed: an update run directly after an update with decay = 1.0 and
\* the same field densities changes neither the bitfield, nor the grid, nor the
\* mean density (and so not the threshold).
C5_Original ==
    [][(op = "update" /\ op' = "update" /\ decay = One /\ decay' = One
            /\ field' = field) =>
         /\ density_bitfield' = density_bitfield
         /\ density_grid' = density_grid
         /\ mean_density' = mean_density]_vars

\* C5 amended: the same, provided the second run evaluates only voxels that the
\* first run evaluated (always so when the first run is a full sweep).
C5_Idempotent ==
    [][(op = "update" /\ op' = "update" /\ decay = One /\ decay' = One
            /\ field' = field
            /\ \A c \in Cas : EvaluatedCells(tmp_grid', c) \subseteq EvaluatedCells(tmp_grid, c)) =>
         /\ density_bitfield' = density_bitfield
         /\ density_grid' = density_grid
         /\ mean_density' = mean_density]_vars

C5_Witness ==
    /\ rerun /\ decay = One /\ op = "update"
    /\ \E c \in Cas, i \in Cells : tmp_grid[c][i] > 0 /\ density_bitfield[c][i] = 1
    /\ \E c \in Cas, i \in Cells : density_bitfield[c][i] = 0

\* C9: iter_density starts at 0 and grows by one per completed update; an update
\* begun with iter_density < 16 evaluates every voxel of every cascade, a later
\* one only the drawn voxels (at most 2N per cascade); only reset_extra_state
\* takes the counter back (to 0).
C9_Step ==
    /\ (op' = "update") =>
           /\ iter_density' = iter_density + 1
           /\ (iter_density < 16) =>
                  (\A c \in Cas, i \in Cells :
                       tmp_grid'[c][i] = field'[c][i] * density_scale)
           /\ (iter_density >= 16) =>
                  (\A c \in Cas :
                       /\ Cardinality(EvaluatedCells(tmp_grid', c)) <= 2 * PartialN
                       /\ \E i \in EvaluatedCells(tmp_grid', c) : density_grid[c][i] > 0)
    /\ (op' = "reset") => (iter_density' = 0)
    /\ (op' \notin {"update", "reset"}) => (iter_density' = iter_density)

C9_Regime == (iter_density = 0) /\ [][C9_Step]_vars

C9_Witness ==
    /\ op = "update" /\ iter_density = FullSweepCalls + 1
    /\ \E c \in Cas, i \in Cells : tmp_grid[c][i] = -1 /\ field[c][i] > 0

InLoop == pc \in {"rgb", "semantic"}
RenderOps == {"render", "render_raised", "render_start", "round", "rgb_done"}
IsZeroDepth(x) == x[1] = "fin" /\ x[2] = 0

\* C1 as claimed: a render call with chunking requested (staged, max_ray_batch
\* below the number of rays) completes without error and returns what one
\* unchunked call returns on the same rays.
C1_ChunkedAsUnchunked ==
    (op \in {"render", "render_raised"} /\ staged /\ max_ray_batch < N) =>
        /\ results.status = "ok"
        /\ results = Rendered(N, miss, TRUE)

\* C2: the inference loop of either pass runs at most max_steps rounds: every
\* round needs step < max_steps and a non-empty alive set and adds n_step >= 1
\* to step; the loop is left only with the alive set empty or step >= max_steps,
\* and leaving it stores a result (no error).
C2_RoundStep ==
    /\ (op' = "round") =>
           /\ step < max_steps /\ rays_alive # {}
           /\ n_step' >= 1 /\ step' = step + n_step'
           /\ rays_alive' \subseteq rays_alive
    /\ (InLoop /\ op' \in {"rgb_done", "render"}) =>
           /\ rays_alive = {} \/ step >= max_steps
           /\ results'.status = "ok"

C2_LoopBounded ==
    /\ [](InLoop => (rounds <= step /\ rounds <= max_steps))
    /\ [][C2_RoundStep]_vars

C2_Witness ==
    /\ InLoop /\ ~LoopRuns /\ rays_alive # {} /\ step > max_steps
    /\ rounds >= 2 /\ N > 1

\* C8: in every round n_step = clamp(N div n_alive, 1, 8); it lies in 1..8, is 1
\* in the first round of a pass and never decreases from round to round.
C8_Step ==
    (op' = "round") =>
        LET q == N \div Cardinality(rays_alive)
        IN /\ Cardinality(rays_alive) \in 1 .. N
           /\ n_step' = (IF q > 8 THEN 8 ELSE IF q < 1 THEN 1 ELSE q)
           /\ n_step' \in 1 .. 8
           /\ (rounds = 0) => (n_step' = 1)
           /\ (rounds > 0) => (n_step' >= n_step)

C8_CompactSteps == [][C8_Step]_vars

C8_Witness ==
    /\ op = "round" /\ n_step = 8 /\ N > 8 /\ rounds >= 3
    /\ Cardinality(rays_alive) = 1

\* C6 as claimed: after a render call (training or inference) the normalized
\* depth of every ray with far == near is exactly 0.
C6_DegenerateDepthZero ==
    (op = "render" /\ results.status = "ok") =>
        \A i \in miss : IsZeroDepth(results.depth[i + 1])

\* C7 as claimed: after k training calls since the last update local_step = k
\* and exactly the slots 0..min(k,16)-1 have been reset and populated.
C7_OneSlotPerCall ==
    cuda_ray =>
        /\ local_step = calls
        /\ \A s \in Slots : (written[s] # -1) <=> (s < Min(calls, RingSize))

\* C7 amended: each training pass (rays_rgb, then rays_semantic) resets and
\* populates one slot and advances local_step by one, so a training call takes
\* two slots: after k training calls since the last update local_step = 2k and
\* exactly the slots 0..min(2k,16)-1 hold the launch count of the latest pass
\* that fell on them.
C7_OneSlotPerPass ==
    cuda_ray =>
        /\ local_step = 2 * calls
        /\ \A s \in Slots :
               IF s < Min(local_step, RingSize)
               THEN /\ written[s] = s + RingSize * ((local_step - 1 - s) \div RingSize)
                    /\ step_counter[s][1] \in SampleCounts
                    /\ step_counter[s][2] >= 1
               ELSE written[s] = -1

C7_Witness ==
    /\ op = "render" /\ training /\ calls = 9 /\ local_step = 18
    /\ written[0] = 16 /\ written[1] = 17 /\ written[2] = 2
    /\ step_counter[1] # step_counter[2]

\* C10: no step of a render call changes the density grid, the bitfield,
\* mean_density or iter_density, and a step of an inference call changes
\* neither the step counter, nor local_step, nor mean_count.
C10_Step ==
    (op' \in RenderOps) =>
        /\ UNCHANGED gridVars
        /\ (~training') => UNCHANGED counterVars

C10_RenderReadsOnly == [][C10_Step]_vars

C10_Witness ==
    /\ op = "render" /\ ~training /\ results.status = "ok"
    /\ density_grid = TrainedGrid /\ iter_density = 1
    /\ \E c \in Cas, i \in Cells : density_bitfield[c][i] = 1
    /\ local_step = 2

\* the grid's sum with every negative cell counted as 0
ClampedTotal(g) ==
    SumOver([c \in Cas |->
                SumOver([i \in Cells |-> IF g[c][i] < 0 THEN 0 ELSE g[c][i]], Cells)],
            Cas)

C12_ResetRestores ==
    (op = "reset" /\ cuda_ray) =>
        /\ density_grid = ZeroGrid
        /\ density_bitfield = ZeroGrid
        /\ mean_density = 0
        /\ iter_density = 0
        /\ step_counter = ZeroCounter
        /\ mean_count = 0
        /\ local_step = 0

\* C13: at a completed update_extra_state call every slot that is averaged into
\* mean_count (slots 0..min(16, local_step)-1) was set up by a training pass
\* since the last update; mean_count becomes the truncated mean of those slots'
\* sample counts, or stays as it is when no training pass ran since the last
\* update; local_step is 0 after the update.
C13_Step ==
    (op' = "update") =>
        LET total_step == IF local_step < 16 THEN local_step ELSE 16
        IN /\ \A s \in Slots : (s < total_step) => (written[s] # -1)
           /\ (calls = 0) => (mean_count' = mean_count)
           /\ (calls > 0) =>
                  /\ total_step > 0
                  /\ mean_count' =
                         SumOver([s \in Slots |->
                                     IF s < total_step THEN step_counter[s][1] ELSE 0],
                                 Slots) \div total_step
           /\ local_step' = 0
           /\ step_counter' = step_counter

C13_FreshSlotsAveraged == [][C13_Step]_vars

C13_Witness ==
    /\ op = "update" /\ iter_density >= 2 /\ local_step = 0
    /\ mean_count = 2
    /\ step_counter[0][1] = 2 /\ step_counter[1][1] = 2
    /\ step_counter[2][1] = 1 /\ step_counter[3][1] = 1

====
